---- MODULE Spec2Model ----
(***************************************************************************)
(* Model of st_error_boundary.error_boundary: the decorator factory        *)
(* error_boundary(on_error, fallback), the decorator it returns and the    *)
(* wrapper _wrapped that intercepts exceptions of the wrapped function,    *)
(* dispatches the hooks and renders the fallback.                          *)
(*                                                                         *)
(* The wrapped function, every hook, the fallback renderer and the         *)
(* string-render collaborator are callables of the environment: each call  *)
(* is one step that starts it and one step in which it returns or raises.  *)
(***************************************************************************)
EXTENDS Naturals, Sequences, FiniteSets

\* ------------------------------------------------------------------ bounds
MaxHooks == 2   \* longest hook collection handed to error_boundary
MaxCalls == 2   \* invocations of the wrapper in one behaviour

\* ------------------------------------------------- values of the environment
HookIds    == {"h1", "h2"}
RendererIds == {"custom_fallback"}
Strings    == {"Oops", "Error message"}
FuncIds    == {"main", "boom"}
ArgVals    == {"a1", "a2"}

None       == [kind |-> "None"]
Val(v)     == [kind |-> "val", v |-> v]
RetVals    == {None, Val("success"), Val("other")}

\* Python's exception classes the wrapped code may raise, each with its base.
Parent(cls) ==
    CASE cls = "RuntimeError"      -> "Exception"
      [] cls = "ValueError"        -> "Exception"
      [] cls = "Exception"         -> "BaseException"
      [] cls = "KeyboardInterrupt" -> "BaseException"
      [] cls = "SystemExit"        -> "BaseException"
      [] cls = "GeneratorExit"     -> "BaseException"
      [] OTHER                     -> "object"

RECURSIVE issubclass(_, _)
issubclass(cls, base) ==
    IF cls = base THEN TRUE
    ELSE IF cls = "object" THEN FALSE
    ELSE issubclass(Parent(cls), base)

OrdinaryClasses    == {"RuntimeError", "ValueError"}
TerminationClasses == {"KeyboardInterrupt", "SystemExit", "GeneratorExit"}
RaisedClasses      == OrdinaryClasses \cup TerminationClasses

\* An exception object: its class and its identity (who raised it, in which
\* invocation of the wrapper).
NewExc(cls, origin, at, call) ==
    [kind |-> "exc", cls |-> cls, origin |-> origin, at |-> at, call |-> call]
NoExc == [kind |-> "noexc"]

isinstance(e, base) == issubclass(e.cls, base)

\* ------------------------------------------------ arguments of error_boundary
SeqsUpTo(S, n) == UNION {[1..k -> S] : k \in 0..n}

OnErrorArgs ==
    {[kind |-> "callable", hook |-> h] : h \in HookIds}
    \cup {[kind |-> "iterable", items |-> s] : s \in SeqsUpTo(HookIds, MaxHooks)}

FallbackArgs ==
    {[kind |-> "str", text |-> s] : s \in Strings}
    \cup {[kind |-> "callable", fn |-> r] : r \in RendererIds}

callable(x) == x.kind = "callable"

\* ---------------------------------------------------------------- outcomes
Running     == [kind |-> "running"]
Returned(v) == [kind |-> "return", val |-> v]
Raised(e)   == [kind |-> "raise", exc |-> e]
NoOutcome   == [kind |-> "pending"]

\* A call made by the wrapper: the callee, its only argument, how it ended.
Call(callee, id, arg) == [callee |-> callee, id |-> id, arg |-> arg, out |-> Running]

VARIABLES
    pc,        \* position: new, constructed, idle, in_func, hooks, in_hook,
               \*           in_fallback, done
    on_error,  \* the on_error argument of error_boundary
    fallback,  \* the fallback argument of error_boundary
    hooks,     \* the closure variable hooks
    func,      \* the wrapped function
    exc,       \* the exception bound by "except Exception as exc"
    hook_i,    \* position of "for hook in hooks"
    trace,     \* the calls made in the current invocation, in order
    outcome,   \* how the current invocation of the wrapper ended
    calls,     \* invocations of the wrapper started so far
    wrapper,   \* __name__ and __doc__ of the wrapper the decorator returned
    entry,     \* the entry point that made the wrapper
    args,      \* the arguments the caller passed to the wrapper
    source,    \* the caller's collection object passed as on_error, as it is now
    outer,     \* hooks and fallback of a second boundary wrapped around the wrapper
    layer,     \* whose wrapper is executing: single, inner, outer
    inner,     \* what the inner wrapper did, once it has ended under an outer one
    earlier    \* an observer's record of an earlier invocation of the wrapper

vars == <<pc, on_error, fallback, hooks, func, exc, hook_i, trace, outcome, calls,
          wrapper, entry, args, source, outer, layer, inner, earlier>>

\* ---------------------------------------------------- error_boundary, 65-68
normalize_hooks_defaulted(oe) ==
    IF ~callable(oe)
    THEN (IF oe.items = <<>> THEN <<"h1">> ELSE oe.items)
    ELSE <<oe.hook>>
normalize_hooks(oe) ==
    IF ~callable(oe) THEN oe.items ELSE <<oe.hook>>

\* ------------------------------------------------- _render_fallback, 70-74
_render_fallback_exc(fb, e) ==
    IF callable(fb)
    THEN Call("renderer", fb.fn, e)
    ELSE Call("render_string_fallback", "render_string_fallback", e)
_render_fallback_interpolated(fb, e) ==
    IF callable(fb)
    THEN Call("renderer", fb.fn, e)
    ELSE Call("render_string_fallback", "render_string_fallback",
              [kind |-> "str", text |-> fb.text, detail |-> e.cls])
_render_fallback(fb, e) ==
    IF callable(fb)
    THEN Call("renderer", fb.fn, e)
    ELSE Call("render_string_fallback", "render_string_fallback",
              [kind |-> "str", text |-> fb.text])

\* ------------------------------------- the except clauses of _wrapped, 81-83
\* "reraise": except (KeyboardInterrupt, SystemExit): raise
\* "handle":  except Exception as exc
\* "propagate": no clause matches, the exception leaves the try statement
except_clause_bare(e) == "handle"
except_clause_unhandled(e) ==
    IF isinstance(e, "KeyboardInterrupt") \/ isinstance(e, "SystemExit")
    THEN "reraise"
    ELSE "propagate"
except_clause(e) ==
    IF isinstance(e, "KeyboardInterrupt") \/ isinstance(e, "SystemExit")
    THEN "reraise"
    ELSE IF isinstance(e, "Exception") THEN "handle"
    ELSE "propagate"

\* ------------------------------------ the except clause around hook(exc), 87
hook_except_bare(e) == "suppress"
hook_except_none(e) == "propagate"
hook_except(e) ==
    IF isinstance(e, "Exception") THEN "suppress" ELSE "propagate"

\* line 89, "pass": the loop goes on with the hook after hook number i
hook_suppressed_break(hs, i) == Len(hs) + 1
hook_suppressed_next(hs, i) == i + 1

\* "for hook in hooks" has no hook left at position i: lines 84, 90
for_exhausted_early(hs, i) == i > Len(hs) \/ i > 1
for_exhausted(hs, i) == i > Len(hs)

\* line 90 is inside no try statement: whatever the fallback path raises
\* leaves _wrapped
fallback_except_guarded(e) ==
    IF isinstance(e, "Exception") THEN "suppress" ELSE "propagate"
fallback_except_absorbing(e) == "suppress"
fallback_except(e) == "propagate"

\* ---------------------------------------------- return func(*args), line 80
wrapped_return_dropped(r) == Returned(None)
wrapped_return(r) == Returned(r)

\* ------------------------------------------------------ return None, line 91
intercepted_reraise == Raised(exc)
intercepted_return == Returned(None)

\* ------------------------------------- @wraps(func), line 77: name and doc
NoDoc == [kind |-> "None"]
Doc(f) ==
    IF f = "main" THEN [kind |-> "str", text |-> "My docstring."] ELSE NoDoc
FuncMeta(f) == [name |-> f, doc |-> Doc(f)]
NoMeta == [name |-> "nowrapper", doc |-> NoDoc]

wraps_missing(f) == [name |-> "_wrapped", doc |-> NoDoc]
wraps(f) == FuncMeta(f)

\* ------------------------- _decorator returns _wrapped, line 93: calls made
decorator_calls_eager(f) == <<Call("func", f, [kind |-> "args", a |-> "a1"])>>
decorator_calls(f) == <<>>

\* --------------------------------------------- func(*args, **kwargs), line 80
call_args_dropped(a) == [kind |-> "args", a |-> "a1"]
call_args(a) == [kind |-> "args", a |-> a]

\* -------------- "for hook in hooks", line 84: the sequence the loop iterates
\* hs is the closure's own list, src the caller's collection as it is now
iter_hooks_live(hs, src) == IF src.kind = "callable" THEN hs ELSE src.items
iter_hooks(hs, src) == hs

\* line 66, list(on_error): what is left of the caller's collection afterwards
after_list(oe) ==
    IF oe.kind = "generator" THEN [kind |-> "generator", items |-> <<>>] ELSE oe

\* lines 87-89: the inner clause binds no name, exc stays the captured one
captured_after_hook_error_rebound(e, raised) == raised
captured_after_hook_error(e, raised) == e

\* lines 87-89: a failing hook stays in hooks
RemoveAt(hs, i) == [k \in 1..(Len(hs) - 1) |-> IF k < i THEN hs[k] ELSE hs[k + 1]]
hooks_after_failure_dropped(hs, i) == RemoveAt(hs, i)
hooks_after_failure(hs, i) == hs

\* ------------------------------------------------------------------ helpers
Finish(tr, out) == [tr EXCEPT ![Len(tr)].out = out]

NoOuter == [kind |-> "none"]
NoInner == [kind |-> "none"]

wrapVars == <<wrapper, entry>>
nestVars == <<outer, layer, inner>>
NoEarlier == [kind |-> "none"]

Init ==
    /\ pc = "new"
    /\ on_error = [kind |-> "unset"]
    /\ fallback = [kind |-> "unset"]
    /\ hooks = <<>>
    /\ func = "nofunc"
    /\ exc = NoExc
    /\ hook_i = 0
    /\ trace = <<>>
    /\ outcome = NoOutcome
    /\ calls = 0
    /\ wrapper = NoMeta
    /\ entry = "none"
    /\ args = "noargs"
    /\ source = [kind |-> "unset"]
    /\ outer = NoOuter
    /\ layer = "single"
    /\ inner = NoInner
    /\ earlier = NoEarlier

\* error_boundary(on_error, fallback): lines 65-95
error_boundary(oe, fb) ==
    /\ pc = "new"
    /\ on_error' = oe
    /\ fallback' = fb
    /\ hooks' = normalize_hooks(oe)
    /\ source' = after_list(oe)
    /\ pc' = "constructed"
    /\ UNCHANGED <<func, exc, hook_i, trace, outcome, calls, args>>
    /\ UNCHANGED <<wrapVars, nestVars, earlier>>

\* What both wrapping entry points leave behind: a wrapper of f, not yet called.
Wrap(f, how) ==
    /\ pc \in {"constructed", "idle", "done"}
    /\ layer = "single"
    /\ func' = f
    /\ wrapper' = wraps(f)
    /\ entry' = how
    /\ pc' = "idle"
    /\ exc' = NoExc
    /\ hook_i' = 0
    /\ trace' = decorator_calls(f)
    /\ outcome' = NoOutcome
    /\ args' = "noargs"
    /\ UNCHANGED <<on_error, fallback, hooks, calls, source, nestVars, earlier>>

\* _decorator(func): lines 76-93
_decorator(f) == Wrap(f, "decorate")

\* wrap_callback(callback): the second wrapping entry point, same wrapper
wrap_callback(cb) == Wrap(cb, "wrap_callback")

\* _wrapped(*args): the try statement is entered and func called, lines 78-80
_wrapped(a) ==
    /\ pc = "idle" \/ (pc = "done" /\ layer = "single")
    /\ calls < MaxCalls
    /\ calls' = calls + 1
    /\ args' = a
    /\ trace' = <<Call("func", func, call_args(a))>>
    /\ exc' = NoExc
    /\ hook_i' = 0
    /\ outcome' = NoOutcome
    /\ pc' = "in_func"
    /\ UNCHANGED <<on_error, fallback, hooks, func, source, wrapVars, nestVars, earlier>>

\* func returns r: line 80
func_returns(r) ==
    /\ pc = "in_func"
    /\ trace' = Finish(trace, Returned(r))
    /\ outcome' = wrapped_return(r)
    /\ pc' = "done"
    /\ UNCHANGED <<on_error, fallback, hooks, func, exc, hook_i, calls>>
    /\ UNCHANGED <<args, source, wrapVars, nestVars, earlier>>

\* func raises an exception of class cls: lines 81-84
func_raises(cls) ==
    /\ pc = "in_func"
    /\ LET e == NewExc(cls, "func", 0, calls)
           clause == except_clause(e)
       IN /\ trace' = Finish(trace, Raised(e))
          /\ IF clause = "handle"
             THEN /\ exc' = e
                  /\ hook_i' = 1
                  /\ pc' = "hooks"
                  /\ UNCHANGED outcome
             ELSE /\ outcome' = Raised(e)
                  /\ pc' = "done"
                  /\ UNCHANGED <<exc, hook_i>>
    /\ UNCHANGED <<on_error, fallback, hooks, func, calls>>
    /\ UNCHANGED <<args, source, wrapVars, nestVars, earlier>>

\* for hook in hooks: hook(exc) is called, lines 84-86
hook_call ==
    /\ pc = "hooks"
    /\ hook_i <= Len(iter_hooks(hooks, source))
    /\ trace' = Append(trace, Call("hook", iter_hooks(hooks, source)[hook_i], exc))
    /\ pc' = "in_hook"
    /\ UNCHANGED <<on_error, fallback, hooks, func, exc, hook_i, outcome, calls>>
    /\ UNCHANGED <<args, source, wrapVars, nestVars, earlier>>

\* hook(exc) returns: line 86, back to the loop head
hook_returns ==
    /\ pc = "in_hook"
    /\ trace' = Finish(trace, Returned(None))
    /\ hook_i' = hook_i + 1
    /\ pc' = "hooks"
    /\ UNCHANGED <<on_error, fallback, hooks, func, exc, outcome, calls>>
    /\ UNCHANGED <<args, source, wrapVars, nestVars, earlier>>

\* hook(exc) raises e: lines 87-89
HookRaise(e) ==
    /\ pc = "in_hook"
    /\ trace' = Finish(trace, Raised(e))
    /\ IF hook_except(e) = "suppress"
       THEN /\ hook_i' = hook_suppressed_next(iter_hooks(hooks, source), hook_i)
            /\ pc' = "hooks"
            /\ exc' = captured_after_hook_error(exc, e)
            /\ hooks' = hooks_after_failure(hooks, hook_i)
            /\ UNCHANGED outcome
       ELSE /\ outcome' = Raised(e)
            /\ pc' = "done"
            /\ UNCHANGED <<hook_i, exc, hooks>>
    /\ UNCHANGED <<on_error, fallback, func, calls>>
    /\ UNCHANGED <<args, source, wrapVars, nestVars, earlier>>

\* the hook raises a new exception of class cls
hook_raises(cls) == HookRaise(NewExc(cls, "hook", hook_i, calls))

\* the hook raises the exception it was given
hook_reraises == HookRaise(exc)

\* _render_fallback(exc) is called after the loop: line 90
render_fallback_call ==
    /\ pc = "hooks"
    /\ for_exhausted(iter_hooks(hooks, source), hook_i)
    /\ trace' = Append(trace, _render_fallback(fallback, exc))
    /\ pc' = "in_fallback"
    /\ UNCHANGED <<on_error, fallback, hooks, func, exc, hook_i, outcome, calls>>
    /\ UNCHANGED <<args, source, wrapVars, nestVars, earlier>>

\* the fallback path returns: lines 90-91
fallback_returns ==
    /\ pc = "in_fallback"
    /\ trace' = Finish(trace, Returned(None))
    /\ outcome' = intercepted_return
    /\ pc' = "done"
    /\ UNCHANGED <<on_error, fallback, hooks, func, exc, hook_i, calls>>
    /\ UNCHANGED <<args, source, wrapVars, nestVars, earlier>>

\* the fallback path raises e: nothing encloses line 90, e leaves _wrapped
FallbackRaise(e) ==
    /\ pc = "in_fallback"
    /\ trace' = Finish(trace, Raised(e))
    /\ outcome' = IF fallback_except(e) = "suppress"
                  THEN intercepted_return
                  ELSE Raised(e)
    /\ pc' = "done"
    /\ UNCHANGED <<on_error, fallback, hooks, func, exc, hook_i, calls>>
    /\ UNCHANGED <<args, source, wrapVars, nestVars, earlier>>

\* the renderer or the string-render collaborator raises a new exception
fallback_raises(cls) == FallbackRaise(NewExc(cls, "fallback", 0, calls))

\* the renderer raises the exception it was given
renderer_reraises ==
    /\ callable(fallback)
    /\ FallbackRaise(exc)

Next ==
    \/ \E oe \in OnErrorArgs, fb \in FallbackArgs : error_boundary(oe, fb)
    \/ \E f \in FuncIds : _decorator(f)
    \/ \E cb \in FuncIds : wrap_callback(cb)
    \/ \E a \in ArgVals : _wrapped(a)
    \/ \E r \in RetVals : func_returns(r)
    \/ \E cls \in RaisedClasses : func_raises(cls)
    \/ hook_call
    \/ hook_returns
    \/ \E cls \in RaisedClasses : hook_raises(cls)
    \/ hook_reraises
    \/ render_fallback_call
    \/ fallback_returns
    \/ \E cls \in RaisedClasses : fallback_raises(cls)
    \/ renderer_reraises

Spec == Init /\ [][Next]_vars

\* ------------------------------------------------ what the trace records
IsHookCall(c)     == c.callee = "hook"
IsFallbackCall(c) == c.callee \in {"renderer", "render_string_fallback"}
HookCalls     == SelectSeq(trace, IsHookCall)
FallbackCalls == SelectSeq(trace, IsFallbackCall)
HooksInvoked  == [k \in 1..Len(HookCalls) |-> HookCalls[k].id]

IsRaise(out)       == out.kind = "raise"
RaisedOrdinary(out) == IsRaise(out) /\ out.exc.cls \in OrdinaryClasses
RaisedTermination(out) == IsRaise(out) /\ out.exc.cls \in TerminationClasses

FuncOut == trace[1].out
FuncReturned          == Len(trace) >= 1 /\ FuncOut.kind = "return"
FuncRaisedOrdinary    == Len(trace) >= 1 /\ RaisedOrdinary(FuncOut)
FuncRaisedTermination == Len(trace) >= 1 /\ RaisedTermination(FuncOut)

HookTerminatedAt(k) == k \in 1..Len(HookCalls) /\ RaisedTermination(HookCalls[k].out)
SomeHookTerminated  == \E k \in 1..Len(HookCalls) : HookTerminatedAt(k)
SomeHookFailed      == \E k \in 1..Len(HookCalls) : RaisedOrdinary(HookCalls[k].out)
FallbackRaised      == Len(FallbackCalls) >= 1 /\ IsRaise(FallbackCalls[1].out)
FallbackReturned    == Len(FallbackCalls) >= 1 /\ FallbackCalls[1].out.kind = "return"

\* The call _render_fallback makes for the configured fallback and exception e.
ExpectedFallback(e) ==
    IF fallback.kind = "callable"
    THEN [callee |-> "renderer", id |-> fallback.fn, arg |-> e]
    ELSE [callee |-> "render_string_fallback", id |-> "render_string_fallback",
          arg |-> [kind |-> "str", text |-> fallback.text]]
SameCall(c, x) == c.callee = x.callee /\ c.id = x.id /\ c.arg = x.arg

\* C1: when the wrapped function returns v, the wrapper returns exactly v and
\* the function call is the only call made: no hook, no renderer, no
\* string-render collaborator.
C1_NormalReturn ==
    (pc = "done" /\ FuncReturned) =>
        /\ outcome = Returned(FuncOut.val)
        /\ Len(trace) = 1
        /\ HookCalls = <<>>
        /\ FallbackCalls = <<>>

C1_Witness ==
    /\ pc = "done"
    /\ FuncReturned
    /\ FuncOut.val = Val("success")
    /\ Len(hooks) = 2
    /\ outcome = Returned(Val("success"))

\* C2 as stated: whenever the wrapped function raises an ordinary error the
\* wrapper call ends by returning None.
C2_AlwaysNone ==
    (pc = "done" /\ FuncRaisedOrdinary) => outcome = Returned(None)

\* C2 amended: after an ordinary error of the wrapped function the wrapper
\* returns None unless a hook raises a termination-class condition or the
\* fallback path raises; then exactly that raised condition reaches the
\* caller. The function's own exception reaches the caller only when the
\* fallback renderer raises it.
C2_NoneUnlessDispatchRaises ==
    (pc = "done" /\ FuncRaisedOrdinary) =>
        /\ outcome =
             IF SomeHookTerminated THEN HookCalls[Len(HookCalls)].out
             ELSE IF FallbackRaised THEN FallbackCalls[1].out
             ELSE Returned(None)
        /\ (outcome = Raised(FuncOut.exc) =>
              /\ FallbackRaised
              /\ FallbackCalls[1].callee = "renderer"
              /\ FallbackCalls[1].out = Raised(FuncOut.exc))

C2_Witness ==
    /\ pc = "done"
    /\ FuncRaisedOrdinary
    /\ Len(hooks) = 2
    /\ ~SomeHookTerminated
    /\ FallbackReturned
    /\ outcome = Returned(None)

\* C3: after an ordinary error of the wrapped function the hooks are invoked
\* in construction order, each at most once while dispatch is under way and
\* each exactly once when the invocation has ended, whichever hooks raised
\* ordinary errors (no hook raising a termination-class condition).
C3_HooksInOrder ==
    FuncRaisedOrdinary =>
        /\ Len(HookCalls) <= Len(hooks)
        /\ HooksInvoked = SubSeq(hooks, 1, Len(HookCalls))
        /\ (pc = "done" /\ ~SomeHookTerminated => HooksInvoked = hooks)

C3_Witness ==
    /\ pc = "done"
    /\ hooks = <<"h2", "h1">>
    /\ HooksInvoked = <<"h2", "h1">>
    /\ RaisedOrdinary(HookCalls[1].out)
    /\ HookCalls[2].out = Returned(None)

\* C4: when the wrapped function raises KeyboardInterrupt, SystemExit or
\* GeneratorExit, no hook and no fallback is called and the wrapper raises
\* that very exception object.
C4_TerminationPassesThrough ==
    (pc = "done" /\ FuncRaisedTermination) =>
        /\ outcome = Raised(FuncOut.exc)
        /\ Len(trace) = 1
        /\ HookCalls = <<>>
        /\ FallbackCalls = <<>>

C4_Witness ==
    /\ pc = "done"
    /\ FuncRaisedTermination
    /\ FuncOut.exc.cls = "GeneratorExit"
    /\ Len(hooks) = 2
    /\ outcome = Raised(FuncOut.exc)

C7_TotalOrder ==
    /\ \A k \in 1..Len(trace) : trace[k].out = Running => k = Len(trace)
    /\ (Len(trace) >= 1 => trace[1].callee = "func")
    /\ (Len(trace) >= 2 => RaisedOrdinary(FuncOut))
    /\ \A k \in 2..Len(trace) :
          IF k <= Len(hooks) + 1
          THEN trace[k].callee = "hook" /\ trace[k].id = hooks[k - 1]
          ELSE /\ IsFallbackCall(trace[k])
               /\ k = Len(hooks) + 2
               /\ k = Len(trace)
               /\ \A j \in 2..(k - 1) : trace[j].out # Running
    /\ (pc = "in_fallback" => Len(trace) = Len(hooks) + 2)

C7_Witness ==
    /\ pc = "in_fallback"
    /\ Len(hooks) = 2
    /\ Len(trace) = 4
    /\ RaisedOrdinary(trace[2].out)
    /\ trace[3].out = Returned(None)
    /\ trace[4].out = Running

\* C8: when hook k raises a termination-class condition, the wrapper raises
\* that very condition, hooks k+1..n are not called and no fallback is
\* rendered.
C8_HookTerminationPropagates ==
    \A k \in 1..Len(HookCalls) :
        HookTerminatedAt(k) =>
            /\ pc = "done"
            /\ outcome = HookCalls[k].out
            /\ outcome # Returned(None)
            /\ Len(HookCalls) = k
            /\ FallbackCalls = <<>>

C8_Witness ==
    /\ pc = "done"
    /\ Len(hooks) = 2
    /\ HookTerminatedAt(1)
    /\ HookCalls[1].out.exc.cls = "KeyboardInterrupt"
    /\ Len(HookCalls) = 1
    /\ outcome = HookCalls[1].out

\* C9: an ordinary error raised by the renderer or by the string-render
\* collaborator is the outcome of the wrapper call: it is not turned into
\* None, no hook is called for it or after it, and the fallback is not
\* called again.
C9_FallbackErrorPropagates ==
    (FallbackCalls # <<>> /\ RaisedOrdinary(FallbackCalls[1].out)) =>
        /\ pc = "done"
        /\ outcome = FallbackCalls[1].out
        /\ outcome # Returned(None)
        /\ Len(FallbackCalls) = 1
        /\ IsFallbackCall(trace[Len(trace)])
        /\ Len(HookCalls) = Len(hooks)
        /\ \A k \in 1..Len(HookCalls) : HookCalls[k].arg = FuncOut.exc

C9_Witness ==
    /\ pc = "done"
    /\ fallback.kind = "str"
    /\ Len(hooks) = 1
    /\ FallbackCalls # <<>>
    /\ RaisedOrdinary(FallbackCalls[1].out)
    /\ FallbackCalls[1].out.exc.origin = "fallback"
    /\ outcome = FallbackCalls[1].out

\* The ways an invocation of the wrapper can end.
EndValue ==
    /\ FuncReturned
    /\ outcome = Returned(FuncOut.val)
    /\ Len(trace) = 1
EndTermination ==
    /\ FuncRaisedTermination
    /\ outcome = Raised(FuncOut.exc)
    /\ Len(trace) = 1
EndIntercepted ==
    /\ FuncRaisedOrdinary
    /\ outcome = Returned(None)
    /\ HooksInvoked = hooks
    /\ ~SomeHookTerminated
    /\ Len(FallbackCalls) = 1
    /\ FallbackReturned
EndHookTermination ==
    /\ FuncRaisedOrdinary
    /\ HookCalls # <<>>
    /\ HookTerminatedAt(Len(HookCalls))
    /\ outcome = HookCalls[Len(HookCalls)].out
    /\ HooksInvoked = SubSeq(hooks, 1, Len(HookCalls))
    /\ FallbackCalls = <<>>
EndFallbackRaised ==
    /\ FuncRaisedOrdinary
    /\ HooksInvoked = hooks
    /\ ~SomeHookTerminated
    /\ Len(FallbackCalls) = 1
    /\ FallbackRaised
    /\ outcome = FallbackCalls[1].out

Count(b) == IF b THEN 1 ELSE 0

\* C10 as stated: every invocation ends in one of three ways: a value and no
\* hook or fallback call; a termination condition of the wrapped function
\* and no hook or fallback call; None after every hook and the fallback.
C10_ThreeOutcomes ==
    pc = "done" =>
        Count(EndValue) + Count(EndTermination) + Count(EndIntercepted) = 1

\* C10 amended: every invocation ends in exactly one of five ways: the three
\* above, or a hook raised a termination-class condition, which propagates
\* after hooks 1..k and no fallback, or the fallback path raised, which
\* propagates after every hook and one fallback call.
C10_FiveOutcomes ==
    pc = "done" =>
        Count(EndValue) + Count(EndTermination) + Count(EndIntercepted)
          + Count(EndHookTermination) + Count(EndFallbackRaised) = 1

C10_Witness ==
    /\ pc = "done"
    /\ EndIntercepted
    /\ Len(hooks) = 2
    /\ SomeHookFailed
    /\ calls = 2

\* ---------------------------------------------------------------------
\* The interception core a callback made by wrap_callback runs, as the
\* design describes it: call the callable; a value passes through; a
\* termination condition propagates; any other error is captured, every hook
\* is called with it in order (an ordinary hook error is swallowed, a
\* termination condition propagates at once), then the fallback is called
\* once and the no-result sentinel returned; what the fallback raises
\* propagates. env holds what the callable, the hooks and the fallback do
\* when called; Running stands for a call that gets no answer.
IsTerminationCondition(e) == e.cls \in TerminationClasses

callback_fallback(fb, e) ==
    IF fb.kind = "callable"
    THEN [callee |-> "renderer", id |-> fb.fn, arg |-> e, out |-> Running]
    ELSE [callee |-> "render_string_fallback", id |-> "render_string_fallback",
          arg |-> [kind |-> "str", text |-> fb.text], out |-> Running]

RECURSIVE callback_dispatch(_, _, _, _, _)
callback_dispatch(hs, fb, e, env, k) ==
    IF k > Len(hs)
    THEN LET c == [callback_fallback(fb, e) EXCEPT !.out = env.fb]
         IN [trace |-> <<c>>,
             outcome |-> IF env.fb.kind = "running" THEN NoOutcome
                         ELSE IF env.fb.kind = "raise" THEN env.fb
                         ELSE Returned(None)]
    ELSE LET r == IF k <= Len(env.hooks) THEN env.hooks[k] ELSE Running
             c == [callee |-> "hook", id |-> hs[k], arg |-> e, out |-> r]
         IN IF r.kind = "running"
            THEN [trace |-> <<c>>, outcome |-> NoOutcome]
            ELSE IF r.kind = "raise" /\ IsTerminationCondition(r.exc)
            THEN [trace |-> <<c>>, outcome |-> r]
            ELSE LET rest == callback_dispatch(hs, fb, e, env, k + 1)
                 IN [trace |-> <<c>> \o rest.trace, outcome |-> rest.outcome]

callback_run(hs, fb, f, a, env) ==
    LET c == [callee |-> "func", id |-> f, arg |-> [kind |-> "args", a |-> a],
              out |-> env.func]
    IN IF env.func.kind = "return"
       THEN [trace |-> <<c>>, outcome |-> Returned(env.func.val)]
       ELSE IF IsTerminationCondition(env.func.exc)
       THEN [trace |-> <<c>>, outcome |-> env.func]
       ELSE LET rest == callback_dispatch(hs, fb, env.func.exc, env, 1)
            IN [trace |-> <<c>> \o rest.trace, outcome |-> rest.outcome]

\* What the callables did in the invocation that has just ended.
Env ==
    [func  |-> FuncOut,
     hooks |-> [k \in 1..Len(HookCalls) |-> HookCalls[k].out],
     fb    |-> IF FallbackCalls # <<>> THEN FallbackCalls[1].out ELSE Running]

\* C11: for every configuration and every behaviour of the wrapped callable,
\* the hooks and the fallback, the wrapper made by _decorator ends with the
\* same outcome and has made the same calls, in the same order and with the
\* same arguments, as the interception core of the callback-wrap entry point
\* does under that behaviour.
C11_CallbackSameAsDirect ==
    pc = "done" =>
        callback_run(hooks, fallback, func, args, Env)
            = [trace |-> trace, outcome |-> outcome]

C11_Witness ==
    /\ pc = "done"
    /\ entry = "wrap_callback"
    /\ Len(hooks) = 2
    /\ Len(HookCalls) = 2
    /\ RaisedOrdinary(HookCalls[1].out)
    /\ FallbackReturned
    /\ outcome = Returned(None)
    /\ callback_run(hooks, fallback, func, args, Env).outcome = Returned(None)

\* ---------------------------------------------------------------------
\* The caller keeps the collection it passed as on_error and goes on using
\* it: a list may be appended to, shortened or reordered at any time after
\* error_boundary returned; a generator has been run to its end by
\* list(on_error).
OneShotArgs ==
    {[kind |-> "generator", items |-> q] : q \in SeqsUpTo(HookIds, MaxHooks)}

Reverse(q) == [k \in 1..Len(q) |-> q[Len(q) + 1 - k]]

CallerChanges(items) ==
    /\ pc # "new"
    /\ source.kind = "iterable"
    /\ items # source.items
    /\ source' = [source EXCEPT !.items = items]
    /\ UNCHANGED <<pc, on_error, fallback, hooks, func, exc, hook_i, trace,
                   outcome, calls, args, wrapVars, nestVars, earlier>>

caller_appends(h) ==
    /\ source.kind = "iterable"
    /\ Len(source.items) <= MaxHooks
    /\ CallerChanges(Append(source.items, h))

caller_removes ==
    /\ source.kind = "iterable"
    /\ source.items # <<>>
    /\ CallerChanges(Tail(source.items))

caller_reorders ==
    /\ source.kind = "iterable"
    /\ CallerChanges(Reverse(source.items))

NextSource ==
    \/ \E oe \in OnErrorArgs \cup OneShotArgs :
          error_boundary(oe, [kind |-> "str", text |-> "Oops"])
    \/ _decorator("boom")
    \/ _wrapped("a1")
    \/ func_returns(None)
    \/ func_raises("ValueError")
    \/ hook_call
    \/ hook_returns
    \/ \E cls \in {"RuntimeError", "SystemExit"} : hook_raises(cls)
    \/ render_fallback_call
    \/ fallback_returns
    \/ \E h \in HookIds : caller_appends(h)
    \/ caller_removes
    \/ caller_reorders

SpecSource == Init /\ [][NextSource]_vars

\* The hook sequence the caller supplied when error_boundary was called.
Supplied ==
    IF on_error.kind = "callable" THEN <<on_error.hook>> ELSE on_error.items

\* C12: from construction on, hooks is the one-element sequence of the single
\* hook, or the supplied collection in the supplied order; whatever the
\* caller does to its collection afterwards and although a generator is
\* exhausted, every failing invocation calls the supplied hooks in the
\* supplied order.
C12_HooksFixedAtConstruction ==
    pc # "new" =>
        /\ hooks = Supplied
        /\ (FuncRaisedOrdinary =>
              /\ Len(HookCalls) <= Len(Supplied)
              /\ HooksInvoked = SubSeq(Supplied, 1, Len(HookCalls))
              /\ (pc = "done" /\ ~SomeHookTerminated => HooksInvoked = Supplied))

C12_Witness ==
    /\ pc = "done"
    /\ calls = 2
    /\ on_error.kind = "iterable"
    /\ on_error.items = <<"h1", "h2">>
    /\ source.items = <<"h2">>
    /\ FuncRaisedOrdinary
    /\ HooksInvoked = <<"h1", "h2">>

\* ---------------------------------------------------------------------
\* An observer notes what one finished invocation was given and what it did,
\* with the invocation's number taken out of the exception objects, to hold
\* it against later invocations.
StripExc(e)  == IF e.kind = "exc" THEN [e EXCEPT !.call = 0] ELSE e
StripOut(o)  == IF o.kind = "raise" THEN Raised(StripExc(o.exc)) ELSE o
StripCall(c) == [c EXCEPT !.arg = StripExc(@), !.out = StripOut(@)]
StripTrace(tr) == [k \in 1..Len(tr) |-> StripCall(tr[k])]

Behaviour ==
    [func  |-> StripOut(Env.func),
     hooks |-> [k \in 1..Len(Env.hooks) |-> StripOut(Env.hooks[k])],
     fb    |-> StripOut(Env.fb)]

observer_records ==
    /\ pc = "done"
    /\ earlier = NoEarlier
    /\ earlier' = [kind |-> "run", hooks |-> hooks, fallback |-> fallback,
                   func |-> func, args |-> args, call |-> calls,
                   behaviour |-> Behaviour,
                   trace |-> StripTrace(trace), outcome |-> StripOut(outcome)]
    /\ UNCHANGED <<pc, on_error, fallback, hooks, func, exc, hook_i, trace,
                   outcome, calls, args, source, wrapVars, nestVars>>

NextRepeat ==
    \/ \E oe \in OnErrorArgs :
          \E fb \in {[kind |-> "str", text |-> "Oops"],
                     [kind |-> "callable", fn |-> "custom_fallback"]} :
             error_boundary(oe, fb)
    \/ _decorator("boom")
    \/ \E a \in ArgVals : _wrapped(a)
    \/ func_returns(Val("success"))
    \/ \E cls \in {"ValueError", "RuntimeError", "KeyboardInterrupt"} :
          func_raises(cls)
    \/ hook_call
    \/ hook_returns
    \/ \E cls \in {"RuntimeError", "SystemExit"} : hook_raises(cls)
    \/ render_fallback_call
    \/ fallback_returns
    \/ fallback_raises("RuntimeError")
    \/ observer_records

SpecRepeat == Init /\ [][NextRepeat]_vars

\* C13: no step after construction changes the boundary's hooks or fallback,
\* every invocation starts with nothing captured, no hook visited and only
\* the wrapped function called, and an invocation given the same arguments
\* and the same behaviour of function, hooks and fallback as an earlier one
\* makes the same calls and ends the same way, whatever happened in between.
C13_Stateless ==
    /\ [][ /\ (pc # "new" => hooks' = hooks /\ fallback' = fallback)
           /\ (calls' # calls =>
                 /\ exc' = NoExc
                 /\ hook_i' = 0
                 /\ outcome' = NoOutcome
                 /\ Len(trace') = 1) ]_vars
    /\ [](earlier # NoEarlier =>
            /\ hooks = earlier.hooks
            /\ fallback = earlier.fallback
            /\ (pc = "done" /\ args = earlier.args /\ Behaviour = earlier.behaviour
                  => /\ StripTrace(trace) = earlier.trace
                     /\ StripOut(outcome) = earlier.outcome))

C13_Witness ==
    /\ pc = "done"
    /\ earlier # NoEarlier
    /\ earlier.call = 1
    /\ calls = 2
    /\ args = earlier.args
    /\ Behaviour = earlier.behaviour
    /\ Len(hooks) = 2
    /\ Len(HookCalls) = 2
    /\ RaisedOrdinary(HookCalls[1].out)
    /\ FallbackRaised
    /\ StripOut(outcome) = earlier.outcome

\* C14: every hook called and the fallback renderer are given one and the same
\* exception object, the one the wrapped function raised in this invocation:
\* not what an earlier hook raised, not an object of an earlier invocation.
C14_SameCapturedException ==
    /\ \A k \in 1..Len(trace) :
          trace[k].callee \in {"hook", "renderer"} =>
              /\ FuncRaisedOrdinary
              /\ trace[k].arg = FuncOut.exc
              /\ trace[k].arg.origin = "func"
              /\ trace[k].arg.call = calls
    /\ (pc \in {"hooks", "in_hook", "in_fallback"} => exc = FuncOut.exc)

C14_Witness ==
    /\ pc = "done"
    /\ calls = 2
    /\ Len(trace) = 4
    /\ trace[2].callee = "hook"
    /\ RaisedOrdinary(trace[2].out)
    /\ trace[2].out.exc.origin = "hook"
    /\ trace[3].arg = FuncOut.exc
    /\ trace[4].callee = "renderer"
    /\ trace[4].arg = FuncOut.exc

\* C15: error_boundary, _decorator and wrap_callback call nothing: as long as
\* no wrapper has been invoked, and whenever a wrapper has just been made, no
\* wrapped function, hook, renderer or string-render collaborator has been
\* called; calls exist only in an invocation of a wrapper.
C15_ConstructionCallsNothing ==
    /\ (pc \in {"new", "constructed", "idle"} => trace = <<>>)
    /\ (calls = 0 => trace = <<>> /\ outcome = NoOutcome)
    /\ (trace # <<>> => calls >= 1 /\ pc \in {"in_func", "hooks", "in_hook",
                                             "in_fallback", "done"})

C15_Witness ==
    /\ pc = "idle"
    /\ calls = 0
    /\ entry = "decorate"
    /\ Len(hooks) = 2
    /\ callable(fallback)
    /\ wrapper.name = func
    /\ trace = <<>>

\* What the end user is shown and the caller gets from a finished invocation.
FallbackCallsOf(tr) == SelectSeq(tr, IsFallbackCall)
Rendered(tr) == [k \in 1..Len(FallbackCallsOf(tr)) |-> FallbackCallsOf(tr)[k].arg]

\* An ordinary error intercepted with a string fallback, no hook raising.
StringIntercepted(tr) ==
    /\ Len(tr) >= 2
    /\ RaisedOrdinary(tr[1].out)
    /\ \A k \in 2..(Len(tr) - 1) : tr[k].callee = "hook" /\ tr[k].out.kind = "return"
    /\ tr[Len(tr)].callee = "render_string_fallback"
    /\ tr[Len(tr)].out.kind = "return"

\* C16: with a string fallback and hooks that do not raise, an intercepted
\* ordinary error shows the user exactly the configured string and returns
\* None, and an earlier invocation that intercepted a different ordinary
\* exception showed and returned the same.
C16_ExceptionNotObservable ==
    (pc = "done" /\ StringIntercepted(trace)) =>
        /\ Rendered(trace) = <<[kind |-> "str", text |-> fallback.text]>>
        /\ outcome = Returned(None)
        /\ (earlier # NoEarlier
              /\ StringIntercepted(earlier.trace)
              /\ earlier.trace[1].out.exc.cls # FuncOut.exc.cls
            => /\ Rendered(earlier.trace) = Rendered(trace)
               /\ earlier.outcome = outcome)

C16_Witness ==
    /\ pc = "done"
    /\ StringIntercepted(trace)
    /\ Len(hooks) = 2
    /\ earlier # NoEarlier
    /\ StringIntercepted(earlier.trace)
    /\ earlier.trace[1].out.exc.cls = "ValueError"
    /\ FuncOut.exc.cls = "RuntimeError"
    /\ Rendered(earlier.trace) = Rendered(trace)

\* C17: the wrapper either entry point returns has the __name__ and the
\* __doc__ of the function it wraps.
C17_MetadataPreserved ==
    entry \in {"decorate", "wrap_callback"} =>
        /\ wrapper.name = func
        /\ wrapper.doc = Doc(func)
        /\ wrapper.name # "_wrapped"

C17_Witness ==
    /\ entry = "decorate"
    /\ pc = "done"
    /\ func = "main"
    /\ wrapper = [name |-> "main", doc |-> [kind |-> "str", text |-> "My docstring."]]

\* The boundary was constructed with an empty collection of hooks.
EmptyCollection == on_error.kind = "iterable" /\ on_error.items = <<>>

\* C18 as stated: with an empty hook collection an ordinary error of the
\* wrapped function calls no hook, renders the fallback once and the wrapper
\* returns None.
C18_EmptyHooksReturnNone ==
    (pc = "done" /\ EmptyCollection /\ FuncRaisedOrdinary) =>
        /\ HookCalls = <<>>
        /\ Len(FallbackCalls) = 1
        /\ outcome = Returned(None)

\* C18 amended: with an empty hook collection construction succeeds with no
\* hooks; an ordinary error of the wrapped function calls no hook and calls
\* the fallback exactly once, right after the function, and the wrapper
\* returns None unless the fallback path raises, in which case what it raised
\* propagates.
C18_EmptyHooksFallbackOnce ==
    /\ (pc # "new" /\ EmptyCollection => hooks = <<>>)
    /\ (pc = "done" /\ EmptyCollection /\ FuncRaisedOrdinary =>
          /\ HookCalls = <<>>
          /\ Len(FallbackCalls) = 1
          /\ Len(trace) = 2
          /\ outcome = IF FallbackRaised THEN FallbackCalls[1].out
                       ELSE Returned(None))

C18_Witness ==
    /\ pc = "done"
    /\ EmptyCollection
    /\ FuncRaisedOrdinary
    /\ HookCalls = <<>>
    /\ FallbackReturned
    /\ outcome = Returned(None)

\* C19: in every invocation the wrapped function is called exactly once, as
\* the first call, with the arguments the caller passed; whatever the hooks
\* and the fallback do afterwards it is not called again.
IsFuncCall(c) == c.callee = "func"
FuncCalls == SelectSeq(trace, IsFuncCall)

C19_FuncCalledOnce ==
    pc \in {"in_func", "hooks", "in_hook", "in_fallback", "done"} =>
        /\ Len(FuncCalls) = 1
        /\ trace[1].callee = "func"
        /\ trace[1].id = func
        /\ trace[1].arg = [kind |-> "args", a |-> args]

C19_Witness ==
    /\ pc = "done"
    /\ args = "a2"
    /\ Len(trace) = 4
    /\ FuncRaisedOrdinary
    /\ RaisedOrdinary(trace[2].out)
    /\ FallbackRaised
    /\ Len(FuncCalls) = 1

\* ---------------------------------------------------------------------
\* A second boundary B = error_boundary(oe, fb) wraps the wrapper boundary A
\* made. When B's wrapper is invoked its try statement calls A's wrapper;
\* when that has ended, control is back in B's wrapper, whose closure
\* variables hooks and fallback are B's.

\* B's _decorator is applied to A's wrapper: lines 65-68 and 76-93
outer_decorator(oe, fb) ==
    /\ pc = "idle"
    /\ layer = "single"
    /\ calls = 0
    /\ outer' = [kind |-> "boundary", hooks |-> normalize_hooks(oe), fallback |-> fb]
    /\ layer' = "inner"
    /\ UNCHANGED <<pc, on_error, fallback, hooks, func, exc, hook_i, trace,
                   outcome, calls, args, source, wrapVars, inner, earlier>>

\* A's wrapper has ended; B's wrapper goes on at lines 80-84 with its outcome
inner_ends ==
    /\ pc = "done"
    /\ layer = "inner"
    /\ inner' = [kind |-> "run", hooks |-> hooks, fallback |-> fallback,
                 trace |-> trace, outcome |-> outcome]
    /\ layer' = "outer"
    /\ hooks' = outer.hooks
    /\ fallback' = outer.fallback
    /\ trace' = <<[Call("func", wrapper.name, call_args(args)) EXCEPT !.out = outcome]>>
    /\ IF outcome.kind = "return"
       THEN /\ outcome' = wrapped_return(outcome.val)
            /\ pc' = "done"
            /\ exc' = NoExc
            /\ hook_i' = 0
       ELSE IF except_clause(outcome.exc) = "handle"
       THEN /\ exc' = outcome.exc
            /\ hook_i' = 1
            /\ pc' = "hooks"
            /\ outcome' = NoOutcome
       ELSE /\ outcome' = Raised(outcome.exc)
            /\ pc' = "done"
            /\ exc' = NoExc
            /\ hook_i' = 0
    /\ UNCHANGED <<on_error, func, calls, args, source, wrapVars, outer, earlier>>

NextNested ==
    \/ \E oe \in OnErrorArgs :
          \E fb \in {[kind |-> "str", text |-> "Oops"],
                     [kind |-> "callable", fn |-> "custom_fallback"]} :
             error_boundary(oe, fb)
    \/ _decorator("boom")
    \/ \E oe \in OnErrorArgs :
          \E fb \in {[kind |-> "str", text |-> "Error message"],
                     [kind |-> "callable", fn |-> "custom_fallback"]} :
             outer_decorator(oe, fb)
    \/ _wrapped("a1")
    \/ \E r \in {None, Val("success")} : func_returns(r)
    \/ \E cls \in {"ValueError", "KeyboardInterrupt", "GeneratorExit"} :
          func_raises(cls)
    \/ hook_call
    \/ hook_returns
    \/ \E cls \in {"RuntimeError", "SystemExit"} : hook_raises(cls)
    \/ render_fallback_call
    \/ fallback_returns
    \/ \E cls \in {"RuntimeError", "SystemExit"} : fallback_raises(cls)
    \/ renderer_reraises
    \/ inner_ends

SpecNested == Init /\ [][NextNested]_vars

\* What A's wrapper did, seen from B's wrapper.
InnerHookCalls     == SelectSeq(inner.trace, IsHookCall)
InnerFallbackCalls == SelectSeq(inner.trace, IsFallbackCall)
InnerHooksInvoked  == [k \in 1..Len(InnerHookCalls) |-> InnerHookCalls[k].id]
InnerFuncRaisedOrdinary == RaisedOrdinary(inner.trace[1].out)
InnerFallbackFailed ==
    /\ InnerFallbackCalls # <<>>
    /\ RaisedOrdinary(InnerFallbackCalls[1].out)
    /\ inner.outcome = InnerFallbackCalls[1].out

TerminationRaisedAt(i) == i \in 1..Len(trace) /\ RaisedTermination(trace[i].out)
FallbackTerminated ==
    FallbackCalls # <<>> /\ RaisedTermination(FallbackCalls[1].out)

\* C21: a termination-class condition raised by the renderer or by the
\* string-render collaborator is the outcome of the wrapper call, the very
\* object that was raised, after every hook has been called and has ended;
\* the call does not return None. Wherever a termination-class condition is
\* raised in an invocation (wrapped function, hook, fallback path), that call
\* is the last one made and the condition is the outcome of the wrapper.
C21_TerminationNeverAbsorbed ==
    /\ (FallbackTerminated =>
          /\ pc = "done"
          /\ outcome = FallbackCalls[1].out
          /\ outcome # Returned(None)
          /\ Len(FallbackCalls) = 1
          /\ HooksInvoked = hooks
          /\ \A k \in 1..Len(HookCalls) : HookCalls[k].out # Running
          /\ IsFallbackCall(trace[Len(trace)]))
    /\ \A i \in 1..Len(trace) :
          TerminationRaisedAt(i) =>
              /\ pc = "done"
              /\ i = Len(trace)
              /\ outcome = trace[i].out

C21_Witness ==
    /\ pc = "done"
    /\ fallback.kind = "callable"
    /\ Len(hooks) = 2
    /\ HooksInvoked = hooks
    /\ Len(FallbackCalls) = 1
    /\ FallbackTerminated
    /\ FallbackCalls[1].out.exc.cls = "SystemExit"
    /\ FallbackCalls[1].out.exc.origin = "fallback"
    /\ outcome = FallbackCalls[1].out

====
